---- MODULE Spec2Model ----
(***************************************************************************)
(* NbTooltipDirective (src/framework/theme/components/tooltip/             *)
(* tooltip.directive.ts) as a state machine.  The directive's fields are   *)
(* the variables; every public method, input setter, lifecycle hook and    *)
(* subscription callback is one action.  The collaborators imported from   *)
(* '../cdk' (overlay service, overlay ref, createContainer, patch) are not *)
(* part of the file and are modelled from their described contract.        *)
(***************************************************************************)
EXTENDS Integers, Sequences, FiniteSets, TLC

VARIABLES
    context,          \* this.context: the content context bag (line 78)
    content,          \* this.content: tooltip message input (line 84)
    position,         \* this.position: placement input (line 90)
    adjustment,       \* this.adjustment: adjustment input (line 97)
    ref,              \* this.ref: overlay handle, NoRef while undefined (line 124)
    container,        \* this.container: rendered content reference (line 125)
    positionStrategy, \* this.positionStrategy (line 126)
    alive,            \* this.alive (line 127)
    pc,               \* lifecycle position: constructed / initialized / destroyed
    overlay,          \* state of the overlay handle that ref points to
    instance,         \* properties of the most recently rendered component
    subs,             \* the three takeWhile subscriptions
    initLog,          \* the steps ngAfterViewInit performed, in order
    lastOp,           \* the handler that ran last
    log,              \* the collaborator calls and flag writes it issued, in order
    creates,          \* number of overlay.create calls so far
    renders,          \* number of createContainer calls so far
    assigned,         \* per context key, the value most recently assigned to its input
    toggleRun,        \* length of the current run of consecutive toggle() calls from hidden
    wasShown,         \* whether the tooltip was shown when the last handler began
    inputs            \* number of input assignments so far

vars == <<context, content, position, adjustment, ref, container, positionStrategy, alive, pc,
          overlay, instance, subs, initLog, lastOp, log, creates, renders, assigned,
          toggleRun, wasShown, inputs>>

----------------------------------------------------------------------------
(* Bounds *)

MaxRenders == 3
MaxInputs == 2

----------------------------------------------------------------------------
(* Values *)

\* A key an object does not have.
Absent == "<absent>"
\* Three of the six placements (top, right, bottom, left, start, end) and the
\* three adjustment policies.
NbPosition == {"top", "bottom", "left"}
NbAdjustment == {"noop", "clockwise", "counterclockwise"}
Contents == {"hint", "other hint"}
Icons == {"i1", "i2"}
Statuses == {"s1", "s2"}
Keys == {"icon", "status"}

UNDEFINED == -1
NULL == 0
NoRef == 0
Offset == 8

NoStrategy == [defined |-> FALSE, position |-> Absent, adjustment |-> Absent, offset |-> 0]
NoOverlay == [attached |-> FALSE, disposed |-> FALSE, positionStrategy |-> NoStrategy]
NoInstance == [position |-> Absent, content |-> Absent]
EmptyObject == [k \in Keys |-> Absent]

\* The directive, its overlay and the effect log as one value, so that a
\* method can call another.
Self ==
    [context |-> context, content |-> content, position |-> position, adjustment |-> adjustment,
     ref |-> ref, container |-> container, positionStrategy |-> positionStrategy,
     alive |-> alive, overlay |-> overlay, instance |-> instance, subs |-> subs,
     initLog |-> initLog, log |-> <<>>, creates |-> creates, renders |-> renders]

Emit(s, what) == [s EXCEPT !.log = Append(s.log, what)]

----------------------------------------------------------------------------
(* Collaborators from '../cdk' *)

\* Object.assign(target, source): source's own keys overwrite, the rest stay.
ObjectAssign(target, source) ==
    [k \in Keys |-> IF source[k] # Absent THEN source[k] ELSE target[k]]

\* NbOverlayService.create(config): a new, empty overlay handle.
overlayCreate(s, strategy) ==
    [Emit(s, "create") EXCEPT
        !.creates = s.creates + 1,
        !.ref = s.creates + 1,
        !.overlay = [attached |-> FALSE, disposed |-> FALSE, positionStrategy |-> strategy]]

hasAttached(s) == s.overlay.attached

refDetach(s) == [Emit(s, "detach") EXCEPT !.overlay.attached = FALSE]

refDispose(s) ==
    [Emit(s, "dispose") EXCEPT !.overlay.attached = FALSE, !.overlay.disposed = TRUE]

\* createContainer(ref, component, props): attaches a new component to the
\* handle and gives it the props; the new content reference is s.renders + 1.
createContainer(s, props) ==
    [Emit(s, "attach") EXCEPT
        !.renders = s.renders + 1,
        !.overlay.attached = TRUE,
        !.instance = props]

\* patch(container, props): assigns props to the content's instance.
patch(s, c, p) ==
    IF c = NULL \/ c = UNDEFINED
    THEN Emit(s, "patch(null)")
    ELSE [Emit(s, "patch") EXCEPT !.instance.position = p]

----------------------------------------------------------------------------
(* NbTooltipDirective *)

createOverlay(s) == overlayCreate(s, s.positionStrategy)

openTooltip(s) ==
    LET r == createContainer(s, [position |-> s.position, content |-> s.content])
    IN  [r EXCEPT !.container = r.renders]

\* Variant of show() without the `if (!this.ref)` guard.
show_alwaysCreate(s) == openTooltip(createOverlay(s))

show(s) == openTooltip(IF s.ref = NoRef THEN createOverlay(s) ELSE s)

\* Variant of hide() without the `if (this.ref)` guard.
hide_unguarded(s) == [refDetach(s) EXCEPT !.container = NULL]

\* Variant of hide() that also drops the handle.
hide_forgetsRef(s) ==
    [(IF s.ref # NoRef THEN refDetach(s) ELSE s) EXCEPT !.container = NULL, !.ref = NoRef]

\* Variant of hide() that does not clear the content reference.
hide_keepsContainer(s) == IF s.ref # NoRef THEN refDetach(s) ELSE s

hide(s) == [(IF s.ref # NoRef THEN refDetach(s) ELSE s) EXCEPT !.container = NULL]

\* Variant of toggle() that tests the handle only, not hasAttached().
toggle_refOnly(s) == IF s.ref # NoRef THEN hide(s) ELSE show(s)

toggle(s) == IF s.ref # NoRef /\ hasAttached(s) THEN hide(s) ELSE show(s)

\* Variant of ngOnDestroy() that disposes without hiding first.
ngOnDestroy_noHide(s) ==
    LET a == [Emit(s, "alive=false") EXCEPT !.alive = FALSE]
    IN  IF a.ref # NoRef THEN refDispose(a) ELSE a

ngOnDestroy(s) ==
    LET a == [Emit(s, "alive=false") EXCEPT !.alive = FALSE]
        h == hide(a)
    IN  IF h.ref # NoRef THEN refDispose(h) ELSE h

createPositionStrategy(s) ==
    [defined |-> TRUE, position |-> s.position, adjustment |-> s.adjustment,
     offset |-> Offset]

Did(s, step) == [s EXCEPT !.initLog = Append(s.initLog, step)]

subscribeOnPositionChange(s) ==
    LET b == [Did(s, "createPositionStrategy") EXCEPT
                 !.positionStrategy = createPositionStrategy(s)]
    IN  [Did(b, "subscribePositionChange") EXCEPT !.subs.position = "active"]

subscribeOnTriggers(s) ==
    LET t == Did(s, "createTriggerStrategy")
        a == [Did(t, "subscribeShow") EXCEPT !.subs.show = "active"]
    IN  [Did(a, "subscribeHide") EXCEPT !.subs.hide = "active"]

\* Variant of ngAfterViewInit() with the two calls in the other order.
ngAfterViewInit_positionFirst(s) == subscribeOnTriggers(subscribeOnPositionChange(s))

ngAfterViewInit(s) == subscribeOnPositionChange(subscribeOnTriggers(s))

\* stream.pipe(takeWhile(() => this.alive)).subscribe(handler): an emission
\* reaches the handler while the subscription is active and alive holds; the
\* first emission after that completes the subscription, and a completed
\* subscription receives nothing.
takeWhile(s, k) == s.subs[k] = "active" /\ s.alive

filtered(s, k) == IF s.subs[k] = "active" THEN [s EXCEPT !.subs[k] = "complete"] ELSE s

\* Variant of the position-change subscription without the takeWhile filter.
onPositionChange_unfiltered(s, p) ==
    IF s.subs.position = "active" THEN patch(s, s.container, p) ELSE s

\* Variant of the position-change subscription that renders the content anew.
onPositionChange_rerender(s, p) ==
    IF takeWhile(s, "position") THEN openTooltip([s EXCEPT !.position = p])
    ELSE filtered(s, "position")

onPositionChange(s, p) ==
    IF takeWhile(s, "position") THEN patch(s, s.container, p) ELSE filtered(s, "position")

\* Variant of the show$ subscription that routes to toggle().
onTriggerShow_toggles(s) == IF takeWhile(s, "show") THEN toggle(s) ELSE filtered(s, "show")

onTriggerShow(s) == IF takeWhile(s, "show") THEN show(s) ELSE filtered(s, "show")

onTriggerHide(s) == IF takeWhile(s, "hide") THEN hide(s) ELSE filtered(s, "hide")

setIcon(s, icon) ==
    [s EXCEPT !.context = ObjectAssign(s.context, [icon |-> icon, status |-> Absent])]

\* Variant of the status setter that replaces the context instead of merging.
setStatus_replace(s, status) ==
    [s EXCEPT !.context = [icon |-> Absent, status |-> status]]

setStatus(s, status) ==
    [s EXCEPT !.context = ObjectAssign(s.context, [icon |-> Absent, status |-> status])]

----------------------------------------------------------------------------
(* State machine *)

Shown == ref # NoRef /\ overlay.attached

Commit(s) ==
    /\ context' = s.context
    /\ content' = s.content
    /\ position' = s.position
    /\ adjustment' = s.adjustment
    /\ ref' = s.ref
    /\ container' = s.container
    /\ positionStrategy' = s.positionStrategy
    /\ alive' = s.alive
    /\ overlay' = s.overlay
    /\ instance' = s.instance
    /\ subs' = s.subs
    /\ initLog' = s.initLog
    /\ log' = s.log
    /\ creates' = s.creates
    /\ renders' = s.renders

\* A handler `name` ran and left the directive as s.
Step(name, s) ==
    /\ Commit(s)
    /\ lastOp' = name
    /\ wasShown' = Shown
    /\ toggleRun' = IF name # "toggle" THEN 0
                    ELSE IF toggleRun = 0 /\ Shown THEN 0
                    ELSE toggleRun + 1

Init ==
    /\ context = EmptyObject
    /\ content = Absent
    /\ position = "top"
    /\ adjustment = "clockwise"
    /\ ref = NoRef
    /\ container = UNDEFINED
    /\ positionStrategy = NoStrategy
    /\ alive = TRUE
    /\ pc = "constructed"
    /\ overlay = NoOverlay
    /\ instance = NoInstance
    /\ subs = [show |-> "none", hide |-> "none", position |-> "none"]
    /\ initLog = <<>>
    /\ lastOp = "constructor"
    /\ log = <<>>
    /\ creates = 0
    /\ renders = 0
    /\ assigned = EmptyObject
    /\ toggleRun = 0
    /\ wasShown = FALSE
    /\ inputs = 0

SetContent ==
    /\ inputs < MaxInputs
    /\ \E c \in Contents : Step("content", [Self EXCEPT !.content = c])
    /\ inputs' = inputs + 1
    /\ UNCHANGED <<pc, assigned>>

SetPosition ==
    /\ inputs < MaxInputs
    /\ \E p \in NbPosition : Step("position", [Self EXCEPT !.position = p])
    /\ inputs' = inputs + 1
    /\ UNCHANGED <<pc, assigned>>

SetAdjustment ==
    /\ inputs < MaxInputs
    /\ \E a \in NbAdjustment : Step("adjustment", [Self EXCEPT !.adjustment = a])
    /\ inputs' = inputs + 1
    /\ UNCHANGED <<pc, assigned>>

SetIcon ==
    /\ inputs < MaxInputs
    /\ \E v \in Icons :
          /\ Step("icon", setIcon(Self, v))
          /\ assigned' = [assigned EXCEPT !.icon = v]
    /\ inputs' = inputs + 1
    /\ UNCHANGED pc

SetStatus ==
    /\ inputs < MaxInputs
    /\ \E v \in Statuses :
          /\ Step("status", setStatus(Self, v))
          /\ assigned' = [assigned EXCEPT !.status = v]
    /\ inputs' = inputs + 1
    /\ UNCHANGED pc

NgAfterViewInit ==
    /\ pc = "constructed"
    /\ Step("ngAfterViewInit", ngAfterViewInit(Self))
    /\ pc' = "initialized"
    /\ UNCHANGED <<assigned, inputs>>

NgOnDestroy ==
    /\ pc # "destroyed"
    /\ Step("ngOnDestroy", ngOnDestroy(Self))
    /\ pc' = "destroyed"
    /\ UNCHANGED <<assigned, inputs>>

\* show(), hide() and toggle() are public: a holder of the directive can
\* call them in any lifecycle phase.
Show ==
    /\ renders < MaxRenders
    /\ Step("show", show(Self))
    /\ UNCHANGED <<pc, assigned, inputs>>

Hide ==
    /\ Step("hide", hide(Self))
    /\ UNCHANGED <<pc, assigned, inputs>>

Toggle ==
    /\ renders < MaxRenders
    /\ Step("toggle", toggle(Self))
    /\ UNCHANGED <<pc, assigned, inputs>>

TriggerShow ==
    /\ subs.show # "none"
    /\ renders < MaxRenders
    /\ Step("show$", onTriggerShow(Self))
    /\ UNCHANGED <<pc, assigned, inputs>>

TriggerHide ==
    /\ subs.hide # "none"
    /\ Step("hide$", onTriggerHide(Self))
    /\ UNCHANGED <<pc, assigned, inputs>>

PositionChange ==
    /\ subs.position # "none"
    /\ \E p \in NbPosition : Step("positionChange", onPositionChange(Self, p))
    /\ UNCHANGED <<pc, assigned, inputs>>

Next ==
    \/ SetContent
    \/ SetPosition
    \/ SetAdjustment
    \/ SetIcon
    \/ SetStatus
    \/ NgAfterViewInit
    \/ NgOnDestroy
    \/ Show
    \/ Hide
    \/ Toggle
    \/ TriggerShow
    \/ TriggerHide
    \/ PositionChange

Spec == Init /\ [][Next]_vars

----------------------------------------------------------------------------
(* Properties *)

\* The directive's own fields.
fields == <<context, content, position, adjustment, ref, container, positionStrategy, alive>>

Notifications == {"positionChange", "show$", "hide$"}

\* C1: the overlay host's create is invoked at most once per instance, over
\* any sequence of show(), hide(), toggle() and trigger signals, and the
\* handle, once created, is that one handle.
C1_AtMostOneCreate == creates <= 1 /\ ref = creates

\* A show() that found the tooltip already shown, with one handle created.
C1_Witness == lastOp = "show" /\ wasShown /\ creates = 1 /\ renders >= 2

\* C2: show() on a tooltip that is already shown is a no-op: no second
\* attach and no change to the content reference or any other field.
C2_ShowIdempotent ==
    [][(Shown /\ lastOp' = "show") =>
          (log' = <<>> /\ UNCHANGED <<fields, overlay, instance, renders>>)]_vars

\* C3 as stated: hide() with nothing shown issues no call on the handle and
\* changes no state (an undefined and a null content reference both count as
\* no content).
C3_HideNoOp ==
    [][(~Shown /\ lastOp' = "hide") =>
          /\ log' = <<>>
          /\ container' \in {NULL, UNDEFINED}
          /\ UNCHANGED <<context, content, position, adjustment, ref, positionStrategy, alive,
                         overlay, instance>>]_vars

\* C3 amended: hide() with nothing shown never disposes and changes neither
\* the overlay nor any field but the content reference, which is null
\* afterwards; it issues one detach call when a handle exists and no call
\* when none exists.
C3_HideWhenHidden ==
    [][(~Shown /\ lastOp' = "hide") =>
          /\ log' = (IF ref = NoRef THEN <<>> ELSE <<"detach">>)
          /\ container' = NULL
          /\ container \in {NULL, UNDEFINED}
          /\ UNCHANGED <<context, content, position, adjustment, ref, positionStrategy, alive,
                         overlay, instance, creates, renders, subs>>]_vars

\* A hide() on a retained, detached handle.
C3_Witness ==
    lastOp = "hide" /\ ~wasShown /\ ref # NoRef /\ log = <<"detach">> /\ ~overlay.disposed

\* C4: the n-th consecutive toggle() from a hidden state leaves the tooltip
\* shown iff n is odd, and toggle() acts as hide() when the handle exists and
\* has attached content and as show() otherwise.
C4_ToggleAlternates ==
    /\ [](toggleRun > 0 => (Shown <=> toggleRun % 2 = 1))
    /\ [][lastOp' = "toggle" =>
             IF ref # NoRef /\ overlay.attached
             THEN Commit(hide(Self))
             ELSE Commit(show(Self))]_vars

\* The third consecutive toggle() from hidden has shown the tooltip again.
C4_Witness == lastOp = "toggle" /\ toggleRun = 3 /\ Shown /\ container = renders

\* C5: after teardown a position-change or trigger notification patches
\* nothing, calls neither show() nor hide() and issues no overlay operation.
C5_NoReactionAfterTeardown ==
    [][(~alive /\ lastOp' \in Notifications) =>
          (log' = <<>> /\ UNCHANGED <<fields, overlay, instance, creates, renders>>)]_vars

\* A position change arrived after the teardown of a tooltip that had
\* rendered content, and was dropped by the filter.
C5_Witness ==
    /\ pc = "destroyed"
    /\ lastOp = "positionChange"
    /\ subs.position = "complete"
    /\ renders >= 1

\* C6: teardown clears the liveness flag, then hides, then disposes: after
\* it the flag is false and the content reference null; an existing handle
\* got exactly detach then dispose, and no handle means no overlay call.
\* Dispose is issued by no other handler, so it happens at most once.
C6_TeardownOrder ==
    /\ lastOp = "ngOnDestroy" =>
          /\ ~alive
          /\ container = NULL
          /\ log = (IF ref = NoRef THEN <<"alive=false">>
                    ELSE <<"alive=false", "detach", "dispose">>)
          /\ ref # NoRef => (overlay.disposed /\ ~overlay.attached)
    /\ (\E i \in DOMAIN log : log[i] = "dispose") => lastOp = "ngOnDestroy"
    /\ overlay.disposed => pc = "destroyed"

\* Teardown of a tooltip that was shown.
C6_Witness == lastOp = "ngOnDestroy" /\ wasShown /\ overlay.disposed

\* C7: hide() on a shown tooltip detaches and nulls the content reference
\* but keeps the handle undisposed; only teardown disposes; a show() that
\* finds a handle attaches into that same handle without another create.
C7_HideRetainsHandle ==
    [][/\ (Shown /\ lastOp' = "hide") =>
             /\ log' = <<"detach">>
             /\ container' = NULL
             /\ ref' = ref
             /\ ~overlay'.attached
             /\ overlay'.disposed = overlay.disposed
       /\ (overlay'.disposed /\ ~overlay.disposed) => lastOp' = "ngOnDestroy"
       /\ (ref # NoRef /\ lastOp' = "show") =>
             /\ log' = <<"attach">>
             /\ ref' = ref
             /\ creates' = creates
             /\ overlay'.attached
             /\ container' = renders']_vars

\* The third show() of hide/show cycles re-attached into the one handle.
C7_Witness ==
    lastOp = "show" /\ ~wasShown /\ renders = 3 /\ creates = 1 /\ Shown /\ ~overlay.disposed

\* C8: on an initialized coordinator, a show() that creates the overlay makes
\* exactly one create call, and the strategy in its configuration is the one
\* built from the current placement, the current adjustment and offset 8.
C8_CreateUsesCurrentStrategy ==
    (pc = "initialized" /\ lastOp = "show" /\ log = <<"create", "attach">>) =>
        /\ creates = 1
        /\ overlay.positionStrategy =
              [defined |-> TRUE, position |-> position, adjustment |-> adjustment,
               offset |-> Offset]

IndexOf(seq, x) == CHOOSE i \in 0..Len(seq) : (i = 0 /\ \A j \in DOMAIN seq : seq[j] # x)
                                              \/ (i > 0 /\ seq[i] = x)

\* C9 as stated: initialization builds the position strategy and subscribes
\* to its position changes before it builds the trigger strategy.
C9_PositionStrategyFirst ==
    initLog # <<>> =>
        IndexOf(initLog, "subscribePositionChange") < IndexOf(initLog, "createTriggerStrategy")

\* C9 amended: initialization builds the trigger strategy and subscribes to
\* its show and hide streams first, then builds the position strategy and
\* subscribes to its position changes, all in the one hook; so once the hook
\* has returned, a trigger show signal that can be routed to show() finds the
\* position strategy built.
C9_InitOrder ==
    /\ initLog # <<>> =>
          initLog = <<"createTriggerStrategy", "subscribeShow", "subscribeHide",
                      "createPositionStrategy", "subscribePositionChange">>
    /\ subs.show # "none" => positionStrategy.defined

\* A trigger show signal was routed to show() and created the overlay.
C9_Witness == lastOp = "show$" /\ log = <<"create", "attach">> /\ pc = "initialized"

\* C10: after any sequence of icon and status assignments the context holds,
\* for each key assigned at least once, its most recent value, and a key
\* never assigned is absent.
C10_ContextMerges == \A k \in Keys : context[k] = assigned[k]

\* Icon then status were assigned and the context holds both.
C10_Witness == lastOp = "status" /\ context.icon # Absent /\ context.status # Absent

\* C11: while alive, a trigger show signal runs show() and a trigger hide
\* signal runs hide(), one signal at a time in the order emitted: after a show
\* signal the tooltip is shown with a content reference, after a hide signal
\* it is hidden with a null content reference.
C11_TriggersRouted ==
    [][/\ (alive /\ subs.show = "active" /\ lastOp' = "show$") =>
             (Commit(show(Self)) /\ Shown' /\ container' = renders' /\ container' # NULL)
       /\ (alive /\ subs.hide = "active" /\ lastOp' = "hide$") =>
             (Commit(hide(Self)) /\ ~Shown' /\ container' = NULL)]_vars

\* Show, hide, show, hide signals were processed and the last one hid the tooltip.
C11_Witness ==
    lastOp = "hide$" /\ alive /\ wasShown /\ renders = 2 /\ ~Shown /\ container = NULL

\* C12: a position change received while alive and while content is rendered
\* patches the position of that content only: same content reference, no
\* overlay call, and handle, liveness flag, placement input, content text and
\* context unchanged.
C12_PositionChangePatchesOnly ==
    [][(alive /\ subs.position = "active" /\ container \notin {NULL, UNDEFINED}
          /\ lastOp' = "positionChange") =>
             /\ log' = <<"patch">>
             /\ instance'.position \in NbPosition
             /\ instance'.content = instance.content
             /\ UNCHANGED <<fields, overlay, creates, renders>>]_vars

\* A position change moved the rendered content away from the placement input.
C12_Witness ==
    /\ lastOp = "positionChange"
    /\ log = <<"patch">>
    /\ instance.position # position
    /\ container = renders

\* C13: the content reference is set (neither null nor undefined) exactly
\* when the handle exists and has attached content, and then it is the
\* content rendered last.
C13_ContainerIffShown ==
    /\ (container \notin {NULL, UNDEFINED}) <=> Shown
    /\ Shown => container = renders

\* A toggle() hid a tooltip on a retained handle: its test and the content
\* reference agree.
C13_Witness ==
    lastOp = "toggle" /\ wasShown /\ ~Shown /\ container = NULL /\ ref # NoRef

\* C14: patch is never called with a null content reference.
C14_PatchNeverNull == \A i \in DOMAIN log : log[i] # "patch(null)"

\* C15: once the handle is disposed no handler attaches into it, creates
\* another handle or sets the content reference.
C15_NoUseAfterDispose ==
    [][overlay.disposed =>
          /\ \A i \in DOMAIN log' : log'[i] \notin {"attach", "create"}
          /\ ~overlay'.attached
          /\ creates' = creates
          /\ container' \in {NULL, UNDEFINED}]_vars

====
